---- MODULE Spec2Model ----
(***************************************************************************)
(* Model of source/run_code.py: the snippet extractor, the file-set        *)
(* resolver, connect-with-retry and the run orchestrator main().           *)
(*                                                                         *)
(* Text is modelled by TLA+ strings, character for character.  The one     *)
(* departure: a backquote cannot be written inside a TLA+ string, so the   *)
(* fence character of the Markdown tags is written "~" throughout (tags    *)
(* and file contents alike); no other text of the model uses "~".          *)
(***************************************************************************)
EXTENDS Integers, Sequences, FiniteSets, TLC

(***************************************************************************)
(* Bounds of the model.                                                    *)
(***************************************************************************)
MaxRetriesBound == 2
MaxResetBound == 1
MaxLines == 7

(***************************************************************************)
(* Python's None and a present value.                                      *)
(***************************************************************************)
None == <<>>
Some(v) == <<v>>
Val(o) == o[1]

(***************************************************************************)
(* str methods used by the program.                                        *)
(***************************************************************************)
StartsWith(s, p) == Len(p) <= Len(s) /\ SubSeq(s, 1, Len(p)) = p

EndsWith(s, p) == Len(p) <= Len(s) /\ SubSeq(s, Len(s) - Len(p) + 1, Len(s)) = p

\* p in s
Contains(s, p) == \E i \in 1..(Len(s) - Len(p) + 1) : SubSeq(s, i, i + Len(p) - 1) = p

\* the positions of the newlines of s, and the k-th of them
Newlines(s) == {i \in 1..Len(s) : SubSeq(s, i, i) = "\n"}

NthNewline(s, k) ==
    CHOOSE p \in Newlines(s) : Cardinality({q \in Newlines(s) : q <= p}) = k

\* s.split("\n"): the pieces between the newlines, one more than the newlines
SplitLines(s) ==
    [k \in 1..(Cardinality(Newlines(s)) + 1) |->
        LET from == IF k = 1 THEN 1 ELSE NthNewline(s, k - 1) + 1
            to == IF k > Cardinality(Newlines(s)) THEN Len(s) ELSE NthNewline(s, k) - 1
        IN IF from > to THEN "" ELSE SubSeq(s, from, to)]

\* f.readlines(): the lines with their newline kept, no empty last line
ReadLines(s) ==
    LET whole == Cardinality(Newlines(s))
        rest == IF Len(s) > 0 /\ SubSeq(s, Len(s), Len(s)) # "\n" THEN 1 ELSE 0
    IN [k \in 1..(whole + rest) |->
           SubSeq(s, IF k = 1 THEN 1 ELSE NthNewline(s, k - 1) + 1,
                     IF k > whole THEN Len(s) ELSE NthNewline(s, k))]

Digits == {"0", "1", "2", "3", "4", "5", "6", "7", "8", "9"}

DigitVal(c) ==
    CASE c = "0" -> 0 [] c = "1" -> 1 [] c = "2" -> 2 [] c = "3" -> 3 [] c = "4" -> 4
      [] c = "5" -> 5 [] c = "6" -> 6 [] c = "7" -> 7 [] c = "8" -> 8 [] c = "9" -> 9

\* int(s) of a string of digits
RECURSIVE ToInt(_)
ToInt(s) ==
    IF s = "" THEN 0
    ELSE 10 * ToInt(SubSeq(s, 1, Len(s) - 1)) + DigitVal(SubSeq(s, Len(s), Len(s)))

\* the longest run of digits of s from position i on
RECURSIVE DigitRun(_, _)
DigitRun(s, i) ==
    IF i <= Len(s) /\ SubSeq(s, i, i) \in Digits
    THEN SubSeq(s, i, i) \o DigitRun(s, i + 1)
    ELSE ""

TEST_SET_PREFIX == "test-set="

\* the positions where r'test-set=(\d+)' matches in line
TestSetMatches(line) ==
    {i \in 1..Len(line) :
        /\ i + Len(TEST_SET_PREFIX) <= Len(line)
        /\ SubSeq(line, i, i + Len(TEST_SET_PREFIX) - 1) = TEST_SET_PREFIX
        /\ SubSeq(line, i + Len(TEST_SET_PREFIX), i + Len(TEST_SET_PREFIX)) \in Digits}

Min(S) == CHOOSE m \in S : \A n \in S : m <= n

\* int(re.findall(r'test-set=(\d+)', line)[0]), defined when there is a match
FirstTestSet(line) ==
    ToInt(DigitRun(line, Min(TestSetMatches(line)) + Len(TEST_SET_PREFIX)))

(***************************************************************************)
(* Module constants and session_type_to_tags_and_extension.                *)
(***************************************************************************)
PYTHON_START_TAG == "~~~python"
PYTHON_END_TAG == "~~~"
PYTHON_EXTENSION == ".py"

GROOVY_START_TAG == "~~~groovy"
GROOVY_END_TAG == "~~~"
GROOVY_EXTENSION == ".groovy"

\* the result for a session type that is neither: ValueError is raised
UNRECOGNIZED == <<"ValueError", "ValueError", "ValueError">>

session_type_to_tags_and_extension(session_type) ==
    CASE session_type = "python" -> <<PYTHON_START_TAG, PYTHON_END_TAG, PYTHON_EXTENSION>>
      [] session_type = "groovy" -> <<GROOVY_START_TAG, GROOVY_END_TAG, GROOVY_EXTENSION>>
      [] OTHER -> UNRECOGNIZED

(***************************************************************************)
(* The file system the run reads: the regular files with their contents,   *)
(* in the order `sort` gives them, and the files open() fails on.          *)
(***************************************************************************)
FileContents ==
    ( "d/a.md"  :> "~~~python\nx = 1\n~~~\ntext\n~~~python\n~~~\n~~~python should-fail\ny\n~~~\n~~~python\nw = 3\n~~~\n" ) @@
    ( "d/b.py"  :> "z = 2\n" ) @@
    ( "d/c.txt" :> "notes\n" ) @@
    ( "e.md"    :> "~~~python skip-test\nx\n~~~\n~~~python\n~~~\n" ) @@
    ( "i"       :> "d/b.py\nu.md\n" ) @@
    ( "l"       :> "d/a.md\nd/c.txt\ne.md\nu.md\n" ) @@
    ( "m"       :> "t.md\n" ) @@
    ( "t.md"    :> "~~~python test-set=1\na = 1\n~~~\n~~~python test-set=1\nprint(a)\n~~~\n" ) @@
    ( "u.md"    :> "~~~python\nx\n~~~\n" )

SortedFiles == <<"d/a.md", "d/b.py", "d/c.txt", "e.md", "i", "l", "m", "t.md", "u.md">>

\* the regular files open() raises on
Unreadable == {"u.md"}

isfile(path) == path \in DOMAIN FileContents

\* the output of `find {path} -type f | sort`
RECURSIVE FindFrom(_, _)
FindFrom(path, k) ==
    IF k > Len(SortedFiles) THEN ""
    ELSE (IF StartsWith(SortedFiles[k], path \o "/") THEN SortedFiles[k] \o "\n" ELSE "")
         \o FindFrom(path, k + 1)

FindOutput(path) == FindFrom(path, 1)

SeqToSet(q) == {q[k] : k \in 1..Len(q)}

(***************************************************************************)
(* path_to_files.  A line of a list file that is not a regular file is     *)
(* resolved by the recursive call, which lists it as a directory.          *)
(***************************************************************************)
RECURSIVE path_to_files(_)
path_to_files(path) ==
    IF path = None THEN {}
    ELSE IF isfile(Val(path))
    THEN LET lines == SplitLines(FileContents[Val(path)])
             nonEmpty == {k \in 1..Len(lines) : Len(lines[k]) > 0}
         IN {lines[k] : k \in {j \in nonEmpty : isfile(lines[j])}}
            \cup UNION {path_to_files(Some(lines[k])) : k \in {j \in nonEmpty : ~isfile(lines[j])}}
    ELSE SeqToSet(SplitLines(FindOutput(Val(path))))

(***************************************************************************)
(* read_code_file and read_markdown_file.  A snippet group is a record of  *)
(* the two lists; error names the exception raised instead, "" for none.   *)
(***************************************************************************)
Group(run, fail) == [error |-> "", should_run |-> run, should_fail |-> fail]
Raised(e) == [error |-> e, should_run |-> <<>>, should_fail |-> <<>>]

read_code_file(file_path) ==
    IF file_path \in Unreadable \/ ~isfile(file_path) THEN Raised("OSError")
    ELSE Group(<<FileContents[file_path]>>, <<>>)

\* the local variables of read_markdown_file; the dictionaries are lists of
\* <<key, text>> in insertion order
ExtractInit ==
    [error |-> "", in_script |-> FALSE, current_script |-> "",
     test_set |-> None, should_fail |-> FALSE,
     no_test_set_should_run |-> <<>>, test_set_should_run |-> <<>>,
     no_test_set_should_fail |-> <<>>, test_set_should_fail |-> <<>>]

HasKey(dict, key) == \E k \in 1..Len(dict) : dict[k][1] = key

\* (variant: `dict[key] = text`, the snippet replacing the set's text)
DictAppendOverwrites(dict, key, text) ==
    IF HasKey(dict, key)
    THEN [k \in 1..Len(dict) |->
             IF dict[k][1] = key THEN <<key, text>> ELSE dict[k]]
    ELSE Append(dict, <<key, text>>)

\* dict[key] += text, the key being added with "" when absent
DictAppend(dict, key, text) ==
    IF HasKey(dict, key)
    THEN [k \in 1..Len(dict) |->
             IF dict[k][1] = key THEN <<key, dict[k][2] \o text>> ELSE dict[k]]
    ELSE Append(dict, <<key, "" \o text>>)

DictValues(dict) == [k \in 1..Len(dict) |-> dict[k][2]]

\* (variant: only "skip-test" is looked for, as src/script.py:74 has it)
SkipLineSkipTestOnly(line) == Contains(line, "skip-test")

\* skip_line: the line holds one of the two markers
SkipLine(line) == Contains(line, "skip-test") \/ Contains(line, "syntax")

\* (variant: `not in_script` is not asked for)
OpensSnippetInsideToo(st, line, start_tag) ==
    StartsWith(line, start_tag) /\ ~SkipLine(line)

\* the first test of the loop body: the line opens a snippet
OpensSnippet(st, line, start_tag) ==
    StartsWith(line, start_tag) /\ ~st.in_script /\ ~SkipLine(line)

\* (variant: a snippet still open at the end of the file is kept)
ExtractResultKeepsOpen(st) ==
    IF st.error # "" THEN Raised(st.error)
    ELSE Group(st.no_test_set_should_run \o DictValues(st.test_set_should_run)
                   \o (IF st.in_script THEN <<st.current_script>> ELSE <<>>),
               st.no_test_set_should_fail \o DictValues(st.test_set_should_fail))

\* (variant: the snippets of the test sets come first)
ExtractResultSetsFirst(st) ==
    IF st.error # "" THEN Raised(st.error)
    ELSE Group(DictValues(st.test_set_should_run) \o st.no_test_set_should_run,
               DictValues(st.test_set_should_fail) \o st.no_test_set_should_fail)

\* one iteration of the loop over the lines
ExtractLine(st, line, start_tag, end_tag) ==
    IF st.error # "" THEN st
       ELSE IF OpensSnippet(st, line, start_tag)
       THEN LET opened == [st EXCEPT !.in_script = TRUE,
                                     !.should_fail = Contains(line, "should-fail"),
                                     !.current_script = ""]
            IN IF Contains(line, "test-set")
               THEN IF TestSetMatches(line) = {}
                    THEN [opened EXCEPT !.error = "IndexError"]
                    ELSE [opened EXCEPT !.test_set = Some(FirstTestSet(line))]
               ELSE opened
       ELSE IF StartsWith(line, end_tag) /\ st.in_script
       THEN LET closed == [st EXCEPT !.in_script = FALSE, !.test_set = None]
            IN IF st.test_set = None
               THEN IF st.should_fail
                    THEN [closed EXCEPT !.no_test_set_should_fail = Append(@, st.current_script)]
                    ELSE [closed EXCEPT !.no_test_set_should_run = Append(@, st.current_script)]
               ELSE IF st.should_fail
                    THEN [closed EXCEPT !.test_set_should_fail =
                              DictAppend(@, Val(st.test_set), st.current_script)]
                    ELSE [closed EXCEPT !.test_set_should_run =
                              DictAppend(@, Val(st.test_set), st.current_script)]
       ELSE IF st.in_script
       THEN [st EXCEPT !.current_script = @ \o line]
       ELSE st

\* the loop over the lines, from line k on; next is the state after line k
RECURSIVE ExtractLines(_, _, _, _, _)
ExtractLines(st, lines, k, start_tag, end_tag) ==
    IF k > Len(lines) THEN st
    ELSE CHOOSE result \in
             {ExtractLines(next, lines, k + 1, start_tag, end_tag) :
                 next \in {ExtractLine(st, lines[k], start_tag, end_tag)}} : TRUE

\* what the function gives once the loop is over or has raised
ExtractResult(st) ==
    IF st.error # "" THEN Raised(st.error)
    ELSE Group(st.no_test_set_should_run \o DictValues(st.test_set_should_run),
               st.no_test_set_should_fail \o DictValues(st.test_set_should_fail))

\* the result of scanning the text of a Markdown file
ExtractText(text, start_tag, end_tag) ==
    CHOOSE result \in
        {ExtractResult(ExtractLines(ExtractInit, lines, 1, start_tag, end_tag)) :
            lines \in {ReadLines(text)}} : TRUE

read_markdown_file(file_path, start_tag, end_tag) ==
    IF file_path \in Unreadable \/ ~isfile(file_path) THEN Raised("OSError")
    ELSE ExtractText(FileContents[file_path], start_tag, end_tag)

(***************************************************************************)
(* The decisions of connect_to_deephaven and main.                         *)
(***************************************************************************)
\* (variant: `if reset_between_files and docker_compose is None`, 0 being falsy)
ConfigInvalidTruthy(reset, compose) == reset # None /\ Val(reset) # 0 /\ compose = None

\* main's first check: the reset count needs the docker-compose command
ConfigInvalid(reset, compose) == reset # None /\ compose = None

\* (variant: `while count <= max_retries`)
RetryAllowedOffByOne(c, retries) == c <= retries

\* the condition of the retry loop
RetryAllowed(c, retries) == c < retries

\* (variant: the test for the ignored paths is missing)
ShouldReadIgnoresNothing(path, ignored) == Len(path) > 0

\* a file path main reads rather than flags to skip
ShouldRead(path, ignored) == Len(path) > 0 /\ ~(path \in ignored)

\* (variant: every file that is not Markdown is read as a code file)
FileKindReadsAll(path, extension) ==
    IF EndsWith(path, ".md") THEN "md" ELSE "code"

\* the extension test: "md", "code" or "unsupported"
FileKind(path, extension) ==
    IF EndsWith(path, ".md") THEN "md"
    ELSE IF EndsWith(path, extension) THEN "code"
    ELSE "unsupported"

\* (variant: the length test is missing)
HasCodeAlways(script_string) == TRUE

\* a snippet is run when it is not the empty string
HasCode(script_string) == Len(script_string) # 0

\* the outcomes of Session(...) and of session.run_script(...)
Outcomes == {"ok", "DHError", "Exception"}

\* (variant: the `except Exception` branch does not set failed)
FailedAfterShouldRunDHOnly(was, outcome) ==
    IF outcome = "DHError" THEN TRUE ELSE was

\* failed after a should_run snippet: either exception sets it
FailedAfterShouldRun(was, outcome) ==
    IF outcome \in {"DHError", "Exception"} THEN TRUE ELSE was

\* (variant: `except Exception: pass`, any error counting as the expected one)
FailedAfterShouldFailAnyError(was, outcome) ==
    IF outcome = "ok" THEN TRUE ELSE was

\* (variant: the expected failure clears the flag)
FailedAfterShouldFailClears(was, outcome) ==
    CASE outcome = "ok" -> TRUE
      [] outcome = "DHError" -> FALSE
      [] outcome = "Exception" -> TRUE

\* failed after a should_fail snippet: DHError is the expected failure
FailedAfterShouldFail(was, outcome) ==
    CASE outcome = "ok" -> TRUE
      [] outcome = "DHError" -> was
      [] outcome = "Exception" -> TRUE

\* (variant: the loop is left at the first snippet that raises)
NextSnippetBreaks(i, outcome, n) ==
    IF outcome \in {"DHError", "Exception"} THEN n + 1 ELSE i + 1

\* (variant: an empty snippet is looked at again)
NextSnippetStaysOnEmpty(i, outcome, n) ==
    IF outcome = "empty" THEN i ELSE i + 1

\* the index of the next iteration of a snippet loop over n snippets, after
\* the snippet at i was run with the outcome, or was empty ("empty")
NextSnippet(i, outcome, n) == i + 1

\* (variant: `file_run_count >= reset_between_files`)
ResetDueAtThreshold(reset, run_count) == reset # None /\ run_count >= Val(reset)

\* the reset test after a snippet was run
ResetDue(reset, run_count) == reset # None /\ run_count > Val(reset)

\* (variant: a file without code is printed but not appended)
ClassificationDropsEmpty(was_skipped, has_failed) ==
    IF was_skipped THEN "none"
    ELSE IF has_failed THEN "error" ELSE "success"

\* the list a file is appended to after its snippets were run
Classification(was_skipped, has_failed) ==
    IF was_skipped THEN "skipped"
    ELSE IF has_failed THEN "error" ELSE "success"

\* (variant: `if len(error_files) > 1`)
ReportExitOffByOne(errors) ==
    IF Len(errors) > 1 THEN "sys.exit: files failed" ELSE "ok"

\* how the run ends after the report
ReportExit(errors) ==
    IF Len(errors) > 0 THEN "sys.exit: files failed" ELSE "ok"

(***************************************************************************)
(* The state: the arguments of main, its local variables, those of the     *)
(* running connect_to_deephaven call, and the record of what the run did   *)
(* to its collaborators.                                                   *)
(***************************************************************************)
VARIABLES
    max_retries, docker_compose, reset_between_files, session_type,
    run_path, ignore_path,
    pc,                 \* where the run is
    exit,               \* "" while running, then how the process ended
    ret,                \* the loop the running connect call returns to
    count, new_session, \* count and session of connect_to_deephaven
    session,            \* main's session
    tags, read_files, ignore_paths,
    pending,            \* the files the for loop has not visited yet
    file_path, script_strings, idx, skipped, failed, file_run_count,
    error_files, success_files, skipped_files,
    commands,           \* the os.system commands issued, in order
    attempts,           \* the Session(...) calls of the running connect call
    sessions_made,      \* the sessions opened so far
    extracted,          \* the files read_markdown_file/read_code_file was called on
    submissions,        \* the run_script calls, in order
    exhausted,          \* a connect call has given up
    failed_before,      \* a Session(...) call of an earlier connect call raised
    md_pc,              \* read_markdown_file scanned a line at a time: "off",
                        \* "scan", "returned" or "raised"
    md_st,              \* the locals of that scan
    md_n,               \* the lines it has read
    md_mode,            \* the lines read end outside a fenced block ("out"),
                        \* in a snippet ("snippet") or in a skipped block ("skip")
    md_open,            \* the snippet the lines read leave open
    md_closed,          \* the snippets the lines read have closed, in file order
    md_skipped,         \* the lines read inside skipped blocks, after their openers
    md_line             \* the line read last

args == <<max_retries, docker_compose, reset_between_files, session_type,
          run_path, ignore_path>>
conn == <<ret, count, new_session, session, attempts, sessions_made, exhausted,
          failed_before>>
resolved == <<tags, read_files, ignore_paths>>
perfile == <<file_path, script_strings, idx, skipped, failed>>
lists == <<error_files, success_files, skipped_files>>
scan == <<md_pc, md_st, md_n, md_mode, md_open, md_closed, md_skipped, md_line>>
vars == <<args, pc, exit, conn, resolved, pending, perfile, file_run_count, lists,
          commands, extracted, submissions, scan>>

SessionTypes == {"python", "groovy"}
RunPaths == {"d", "l", "m"}
IgnorePaths == {None, Some("i")}
NoGroup == Group(<<>>, <<>>)
NoSnippet == [test_set |-> None, should_fail |-> FALSE, body |-> ""]

Init ==
    /\ max_retries \in 0..MaxRetriesBound
    /\ docker_compose \in {None, Some("docker-compose")}
    /\ reset_between_files \in {None} \cup {Some(n) : n \in 0..MaxResetBound}
    /\ session_type \in SessionTypes
    /\ run_path \in RunPaths
    /\ ignore_path \in IgnorePaths
    /\ pc = "start"
    /\ exit = ""
    /\ ret = "main"
    /\ count = 0
    /\ new_session = None
    /\ session = None
    /\ tags = <<"", "", "">>
    /\ read_files = {}
    /\ ignore_paths = {}
    /\ pending = {}
    /\ file_path = ""
    /\ script_strings = NoGroup
    /\ idx = 1
    /\ skipped = TRUE
    /\ failed = FALSE
    /\ file_run_count = 0
    /\ error_files = <<>>
    /\ success_files = <<>>
    /\ skipped_files = <<>>
    /\ commands = <<>>
    /\ attempts = 0
    /\ sessions_made = 0
    /\ extracted = {}
    /\ submissions = <<>>
    /\ exhausted = FALSE
    /\ failed_before = FALSE
    /\ md_pc = "off"
    /\ md_st = ExtractInit
    /\ md_n = 0
    /\ md_mode = "out"
    /\ md_open = NoSnippet
    /\ md_closed = <<>>
    /\ md_skipped = 0
    /\ md_line = ""

(***************************************************************************)
(* connect_to_deephaven.                                                   *)
(***************************************************************************)
\* (variant: count is kept from the call before)
CallConnectKeepsCount(from) ==
    /\ pc' = "connect"
    /\ ret' = from
    /\ count' = count
    /\ new_session' = None
    /\ attempts' = 0
    /\ failed_before' = (failed_before \/ count > 0)

\* the call: count = 0, session = None
CallConnect(from) ==
    /\ pc' = "connect"
    /\ ret' = from
    /\ count' = 0
    /\ new_session' = None
    /\ attempts' = 0
    /\ failed_before' = (failed_before \/ count > 0)

\* where main goes on when the call made from `from` returns
AfterConnect(from) == IF from = "main" THEN "resolve" ELSE from

\* one pass of the retry loop: Session(...) returns (break) or raises
ConnectAttempt ==
    /\ pc = "connect"
    /\ new_session = None
    /\ RetryAllowed(count, max_retries)
    /\ attempts' = attempts + 1
    /\ \E outcome \in Outcomes :
          IF outcome = "ok"
          THEN /\ new_session' = Some(sessions_made + 1)
               /\ sessions_made' = sessions_made + 1
               /\ count' = count
          ELSE /\ count' = count + 1
               /\ UNCHANGED <<new_session, sessions_made>>
    /\ UNCHANGED <<args, scan, pc, exit, ret, session, exhausted, failed_before, resolved, pending, perfile,
                   file_run_count, lists, commands, extracted, submissions>>

\* (variant: giving up fails the file being processed, and the run ends with
\* the report)
ConnectEndFailsFile ==
    /\ pc = "connect"
    /\ new_session # None \/ ~RetryAllowed(count, max_retries)
    /\ IF new_session = None
       THEN /\ pc' = "done"
            /\ exit' = "sys.exit: files failed"
            /\ exhausted' = TRUE
            /\ error_files' = IF ret = "main" THEN error_files
                              ELSE Append(error_files, file_path)
            /\ UNCHANGED <<session, file_run_count>>
       ELSE /\ pc' = AfterConnect(ret)
            /\ session' = new_session
            /\ file_run_count' = IF ret = "main" THEN file_run_count ELSE 0
            /\ UNCHANGED <<exit, exhausted, error_files>>
    /\ UNCHANGED <<args, scan, ret, count, new_session, attempts, sessions_made,
                   failed_before, resolved, pending, perfile, success_files,
                   skipped_files, commands, extracted, submissions>>

\* (variant: without the sys.exit, None is returned and main goes on)
ConnectEndGoesOn ==
    /\ pc = "connect"
    /\ new_session # None \/ ~RetryAllowed(count, max_retries)
    /\ pc' = AfterConnect(ret)
    /\ session' = new_session
    /\ exhausted' = (exhausted \/ new_session = None)
    /\ file_run_count' = IF ret = "main" THEN file_run_count ELSE 0
    /\ UNCHANGED <<args, scan, exit, ret, count, new_session, attempts, sessions_made,
                   failed_before, resolved,
                   pending, perfile, lists, commands, extracted, submissions>>

\* after the loop: sys.exit when there is no session, else the session is
\* returned and assigned; a reset then zeroes file_run_count
ConnectEnd ==
    /\ pc = "connect"
    /\ new_session # None \/ ~RetryAllowed(count, max_retries)
    /\ IF new_session = None
       THEN /\ pc' = "done"
            /\ exit' = "sys.exit: connect failed"
            /\ exhausted' = TRUE
            /\ UNCHANGED <<session, file_run_count>>
       ELSE /\ pc' = AfterConnect(ret)
            /\ session' = new_session
            /\ file_run_count' = IF ret = "main" THEN file_run_count ELSE 0
            /\ UNCHANGED <<exit, exhausted>>
    /\ UNCHANGED <<args, scan, ret, count, new_session, attempts, sessions_made,
                   failed_before, resolved,
                   pending, perfile, lists, commands, extracted, submissions>>

(***************************************************************************)
(* main.                                                                   *)
(***************************************************************************)
\* the configuration check, then to the launch or straight to the connect
CheckConfig ==
    /\ pc = "start"
    /\ IF ConfigInvalid(reset_between_files, docker_compose)
       THEN /\ pc' = "done"
            /\ exit' = "ValueError"
            /\ UNCHANGED <<ret, count, new_session, attempts, failed_before>>
       ELSE IF docker_compose # None
       THEN /\ pc' = "launch"
            /\ UNCHANGED <<exit, ret, count, new_session, attempts, failed_before>>
       ELSE /\ CallConnect("main")
            /\ UNCHANGED exit
    /\ UNCHANGED <<args, scan, session, sessions_made, exhausted, resolved, pending, perfile,
                   file_run_count, lists, commands, extracted, submissions>>

\* os.system(f"{docker_compose} up -d"), then the first connect
LaunchServer ==
    /\ pc = "launch"
    /\ commands' = Append(commands, "up -d")
    /\ CallConnect("main")
    /\ UNCHANGED <<args, scan, exit, session, sessions_made, exhausted, resolved, pending,
                   perfile, file_run_count, lists, extracted, submissions>>

\* the tags, the two file sets and the empty result lists
ResolveFiles ==
    /\ pc = "resolve"
    /\ LET found == session_type_to_tags_and_extension(session_type)
       IN /\ tags' = found
          /\ IF found = UNRECOGNIZED
             THEN /\ pc' = "done"
                  /\ exit' = "ValueError"
                  /\ UNCHANGED <<read_files, ignore_paths, pending>>
             ELSE /\ LET files == path_to_files(Some(run_path))
                     IN read_files' = files /\ pending' = files
                  /\ ignore_paths' = path_to_files(ignore_path)
                  /\ pc' = "for_file"
                  /\ UNCHANGED exit
    /\ error_files' = <<>>
    /\ success_files' = <<>>
    /\ skipped_files' = <<>>
    /\ file_run_count' = 0
    /\ UNCHANGED <<args, scan, conn, perfile, commands, extracted, submissions>>

\* read the file the way its extension asks for
ReadFile(path) ==
    IF FileKind(path, tags[3]) = "md" THEN read_markdown_file(path, tags[1], tags[2])
    ELSE read_code_file(path)

\* the head of the for loop over the set read_files, which Python visits in
\* an order of its own: flag the file to skip, skip it for its extension, or
\* read it (an exception of the read ends the run)
NextFile ==
    /\ pc = "for_file"
    /\ \E path \in pending :
          /\ pending' = pending \ {path}
          /\ IF ~ShouldRead(path, ignore_paths) \/ FileKind(path, tags[3]) = "unsupported"
             THEN /\ skipped_files' = Append(skipped_files, path)
                  /\ UNCHANGED <<pc, exit, perfile, extracted>>
             ELSE /\ file_path' = path
                  /\ extracted' = extracted \cup {path}
                  /\ LET read == ReadFile(path)
                     IN /\ script_strings' = read
                        /\ IF read.error # ""
                           THEN /\ pc' = "done"
                                /\ exit' = read.error
                                /\ UNCHANGED <<idx, skipped, failed>>
                           ELSE /\ pc' = "should_run"
                                /\ idx' = 1
                                /\ skipped' = TRUE
                                /\ failed' = FALSE
                                /\ UNCHANGED exit
                  /\ UNCHANGED skipped_files
    /\ UNCHANGED <<args, scan, conn, resolved, file_run_count, error_files, success_files,
                   commands, submissions>>

\* the record of one session.run_script call
Submission(bucket, body, outcome) ==
    [file |-> file_path, bucket |-> bucket, body |-> body, outcome |-> outcome,
     session |-> session]

\* one iteration of `for script_string in script_strings["should_run"]`
RunSnippet ==
    /\ pc = "should_run"
    /\ idx <= Len(script_strings.should_run)
    /\ LET script_string == script_strings.should_run[idx]
           n == Len(script_strings.should_run)
       IN IF HasCode(script_string)
          THEN \E outcome \in Outcomes :
                  /\ idx' = NextSnippet(idx, outcome, n)
                  /\ skipped' = FALSE
                  /\ file_run_count' = file_run_count + 1
                  /\ submissions' = Append(submissions,
                                           Submission("should_run", script_string, outcome))
                  /\ failed' = FailedAfterShouldRun(failed, outcome)
                  /\ IF ResetDue(reset_between_files, file_run_count + 1)
                     THEN pc' = "reset_stop" /\ ret' = "should_run"
                     ELSE UNCHANGED <<pc, ret>>
          ELSE /\ idx' = NextSnippet(idx, "empty", n)
               /\ UNCHANGED <<skipped, file_run_count, submissions, failed, pc, ret>>
    /\ UNCHANGED <<args, scan, exit, count, new_session, session, attempts, sessions_made,
                   failed_before,
                   exhausted, resolved, pending, file_path, script_strings, lists,
                   commands, extracted>>

\* (variant: the should_run loop can be left before its last snippet)
RunLoopEndEarly ==
    /\ pc = "should_run"
    /\ pc' = "should_fail"
    /\ idx' = 1
    /\ UNCHANGED <<args, scan, exit, conn, resolved, pending, file_path, script_strings,
                   skipped, failed, file_run_count, lists, commands, extracted,
                   submissions>>

\* the should_run loop is over
RunLoopEnd ==
    /\ pc = "should_run"
    /\ idx > Len(script_strings.should_run)
    /\ pc' = "should_fail"
    /\ idx' = 1
    /\ UNCHANGED <<args, scan, exit, conn, resolved, pending, file_path, script_strings,
                   skipped, failed, file_run_count, lists, commands, extracted,
                   submissions>>

\* one iteration of `for script_string in script_strings["should_fail"]`
FailSnippet ==
    /\ pc = "should_fail"
    /\ idx <= Len(script_strings.should_fail)
    /\ LET script_string == script_strings.should_fail[idx]
           n == Len(script_strings.should_fail)
       IN IF HasCode(script_string)
          THEN \E outcome \in Outcomes :
                  /\ idx' = NextSnippet(idx, outcome, n)
                  /\ skipped' = FALSE
                  /\ file_run_count' = file_run_count + 1
                  /\ submissions' = Append(submissions,
                                           Submission("should_fail", script_string, outcome))
                  /\ failed' = FailedAfterShouldFail(failed, outcome)
                  /\ IF ResetDue(reset_between_files, file_run_count + 1)
                     THEN pc' = "reset_stop" /\ ret' = "should_fail"
                     ELSE UNCHANGED <<pc, ret>>
          ELSE /\ idx' = NextSnippet(idx, "empty", n)
               /\ UNCHANGED <<skipped, file_run_count, submissions, failed, pc, ret>>
    /\ UNCHANGED <<args, scan, exit, count, new_session, session, attempts, sessions_made,
                   failed_before,
                   exhausted, resolved, pending, file_path, script_strings, lists,
                   commands, extracted>>

\* os.system(f"{docker_compose} stop")
ResetStop ==
    /\ pc = "reset_stop"
    /\ commands' = Append(commands, "stop")
    /\ pc' = "reset_up"
    /\ UNCHANGED <<args, scan, exit, conn, resolved, pending, perfile, file_run_count, lists,
                   extracted, submissions>>

\* (variant: the server is started again but the session is not replaced)
ResetUpKeepsSession ==
    /\ pc = "reset_up"
    /\ commands' = Append(commands, "up -d")
    /\ pc' = ret
    /\ file_run_count' = 0
    /\ UNCHANGED <<args, scan, exit, conn, resolved, pending, perfile, lists, extracted,
                   submissions>>

\* os.system(f"{docker_compose} up -d"), then the connect of the reset
ResetUp ==
    /\ pc = "reset_up"
    /\ commands' = Append(commands, "up -d")
    /\ CallConnect(ret)
    /\ UNCHANGED <<args, scan, exit, session, sessions_made, exhausted, resolved, pending,
                   perfile, file_run_count, lists, extracted, submissions>>

\* both loops are over: the file goes to one of the three lists
ClassifyFile ==
    /\ pc = "should_fail"
    /\ idx > Len(script_strings.should_fail)
    /\ LET to == Classification(skipped, failed)
       IN /\ skipped_files' = IF to = "skipped" THEN Append(skipped_files, file_path)
                              ELSE skipped_files
          /\ error_files' = IF to = "error" THEN Append(error_files, file_path)
                            ELSE error_files
          /\ success_files' = IF to = "success" THEN Append(success_files, file_path)
                              ELSE success_files
    /\ pc' = "for_file"
    /\ UNCHANGED <<args, scan, exit, conn, resolved, pending, perfile, file_run_count,
                   commands, extracted, submissions>>

\* the for loop is over: the three lists are printed and the run ends
Report ==
    /\ pc = "for_file"
    /\ pending = {}
    /\ pc' = "done"
    /\ exit' = ReportExit(error_files)
    /\ UNCHANGED <<args, scan, conn, resolved, pending, perfile, file_run_count, lists,
                   commands, extracted, submissions>>

Next ==
    \/ CheckConfig
    \/ LaunchServer
    \/ ConnectAttempt
    \/ ConnectEnd
    \/ ResolveFiles
    \/ NextFile
    \/ RunSnippet
    \/ RunLoopEnd
    \/ FailSnippet
    \/ ResetStop
    \/ ResetUp
    \/ ClassifyFile
    \/ Report

Spec == Init /\ [][Next]_vars

\* the run with its progress: the one thread of main takes its next step as
\* long as it has one, every call to the server returning or raising
FairSpec == Spec /\ WF_vars(Next)

(***************************************************************************)
(* read_markdown_file on its own, the lines of the file being any lines of *)
(* MdLines, at most MaxLines of them: one step per iteration of            *)
(* `for line in f.readlines()`, and one for the end of the file.  Beside   *)
(* the locals of the function, the steps keep what the lines read are by   *)
(* the rules of the fences: a block opens at a line starting with the      *)
(* start tag outside any snippet and ends at the next line starting with   *)
(* the end tag; it is a skipped block when its opening line holds          *)
(* "skip-test" or "syntax", and a snippet otherwise.  The start tag begins *)
(* with the end tag, so a line starting with the start tag ends a skipped  *)
(* block and opens the next block, while in a snippet it only ends it.     *)
(***************************************************************************)
MdLines ==
    { "~~~python\n", "~~~python test-set=1\n", "~~~python should-fail test-set=1\n",
      "~~~python test-set=2\n", "~~~python skip-test\n", "~~~python syntax\n",
      "~~~python test-set\n", "~~~\n", "a\n", "b\n" }

InitExtract ==
    /\ max_retries = 0
    /\ docker_compose = None
    /\ reset_between_files = None
    /\ session_type = "python"
    /\ run_path = "x.md"
    /\ ignore_path = None
    /\ pc = "read_markdown_file"
    /\ exit = ""
    /\ ret = "main"
    /\ count = 0
    /\ new_session = None
    /\ session = None
    /\ tags = session_type_to_tags_and_extension("python")
    /\ read_files = {"x.md"}
    /\ ignore_paths = {}
    /\ pending = {}
    /\ file_path = "x.md"
    /\ script_strings = NoGroup
    /\ idx = 1
    /\ skipped = TRUE
    /\ failed = FALSE
    /\ file_run_count = 0
    /\ error_files = <<>>
    /\ success_files = <<>>
    /\ skipped_files = <<>>
    /\ commands = <<>>
    /\ attempts = 0
    /\ sessions_made = 0
    /\ extracted = {"x.md"}
    /\ submissions = <<>>
    /\ exhausted = FALSE
    /\ failed_before = FALSE
    /\ md_pc = "scan"
    /\ md_st = ExtractInit
    /\ md_n = 0
    /\ md_mode = "out"
    /\ md_open = NoSnippet
    /\ md_closed = <<>>
    /\ md_skipped = 0
    /\ md_line = ""

\* one iteration of the loop, on any next line of the file
ScanLine ==
    /\ md_pc = "scan"
    /\ md_n < MaxLines
    /\ \E line \in MdLines :
          LET st == ExtractLine(md_st, line, tags[1], tags[2])
              opens == StartsWith(line, tags[1])
              ends == StartsWith(line, tags[2])
              marked == Contains(line, "skip-test") \/ Contains(line, "syntax")
          IN /\ md_st' = st
             /\ md_n' = md_n + 1
             /\ IF st.error # ""
                THEN /\ md_pc' = "raised"
                     /\ script_strings' = ExtractResult(st)
                     /\ exit' = st.error
                ELSE UNCHANGED <<md_pc, script_strings, exit>>
             /\ md_mode' = CASE md_mode = "snippet" /\ ends -> "out"
                              [] md_mode # "snippet" /\ opens /\ marked -> "skip"
                              [] md_mode # "snippet" /\ opens /\ ~marked -> "snippet"
                              [] md_mode = "skip" /\ ends -> "out"
                              [] OTHER -> md_mode
             /\ md_open' = CASE md_mode # "snippet" /\ opens /\ ~marked ->
                                  [test_set |-> IF TestSetMatches(line) = {} THEN None
                                                ELSE Some(FirstTestSet(line)),
                                   should_fail |-> Contains(line, "should-fail"),
                                   body |-> ""]
                              [] md_mode = "snippet" /\ ~ends ->
                                  [md_open EXCEPT !.body = @ \o line]
                              [] md_mode = "snippet" /\ ends -> NoSnippet
                              [] OTHER -> md_open
             /\ md_closed' = IF md_mode = "snippet" /\ ends
                             THEN Append(md_closed, md_open) ELSE md_closed
             /\ md_skipped' = IF md_mode = "skip" /\ ~ends
                              THEN md_skipped + 1 ELSE md_skipped
             /\ md_line' = line
    /\ UNCHANGED <<args, pc, conn, resolved, pending, file_path, idx, skipped, failed,
                   file_run_count, lists, commands, extracted, submissions>>

\* readlines() is exhausted: the buckets are put together and returned
EndOfFile ==
    /\ md_pc = "scan"
    /\ md_pc' = "returned"
    /\ script_strings' = ExtractResult(md_st)
    /\ UNCHANGED <<args, pc, exit, conn, resolved, pending, file_path, idx, skipped,
                   failed, file_run_count, lists, commands, extracted, submissions,
                   md_st, md_n, md_mode, md_open, md_closed, md_skipped, md_line>>

NextExtract ==
    \/ ScanLine
    \/ EndOfFile

SpecExtract == InitExtract /\ [][NextExtract]_vars

(***************************************************************************)
(* Vocabulary of the properties.                                           *)
(***************************************************************************)
Count(list, x) == Cardinality({k \in 1..Len(list) : list[k] = x})
InList(list, x) == \E k \in 1..Len(list) : list[k] = x

\* the file is in one of the three result lists
Classified(path) ==
    InList(skipped_files, path) \/ InList(success_files, path) \/ InList(error_files, path)

\* the positions of the run_script calls made for the file
SubsOf(path) == {k \in 1..Len(submissions) : submissions[k].file = path}

\* a run_script call whose outcome is not the one its bucket expects
Violates(sub) ==
    \/ sub.bucket = "should_run" /\ sub.outcome # "ok"
    \/ sub.bucket = "should_fail" /\ sub.outcome # "DHError"

NonEmptyIn(list) == Cardinality({k \in 1..Len(list) : Len(list[k]) > 0})

\* the non-empty snippets of the two buckets of a snippet group
NonEmptySnippets(group) == NonEmptyIn(group.should_run) + NonEmptyIn(group.should_fail)

\* the run came to the report, and is at it or past it
AtReport ==
    \/ pc = "for_file" /\ pending = {}
    \/ pc = "done" /\ exit \in {"ok", "sys.exit: files failed"}

\* main is in the snippet loops of the file, a reset of those loops included
InFile(path) ==
    /\ file_path = path
    /\ \/ pc \in {"should_run", "should_fail", "reset_stop", "reset_up"}
       \/ pc = "connect" /\ ret # "main"

(***************************************************************************)
(* C1: when main comes to its report, every path of the resolved run-set   *)
(* is in exactly one of skipped_files, success_files and error_files, and  *)
(* is there exactly once.                                                  *)
(***************************************************************************)
C1_OneClassificationPerFile ==
    AtReport =>
        \A path \in read_files :
            Count(skipped_files, path) + Count(success_files, path)
                + Count(error_files, path) = 1

\* a report with a file in each of the three lists
C1_Witness ==
    /\ pc = "done" /\ exit = "sys.exit: files failed"
    /\ Len(skipped_files) > 0 /\ Len(success_files) > 0 /\ Len(error_files) > 0

(***************************************************************************)
(* C2: a classified file for which snippets were submitted is in           *)
(* error_files exactly when one of its submissions violated its expected   *)
(* outcome, and in success_files exactly when none did.                    *)
(***************************************************************************)
C2_ClassificationByViolation ==
    \A path \in read_files :
        (Classified(path) /\ SubsOf(path) # {}) =>
            LET violated == \E k \in SubsOf(path) : Violates(submissions[k])
            IN /\ InList(error_files, path) <=> violated
               /\ InList(success_files, path) <=> ~violated

\* a file failed by a should_run snippet that raised something other than
\* DHError, next to a file that succeeded
C2_Witness ==
    /\ \E k \in 1..Len(submissions) :
          /\ submissions[k].bucket = "should_run"
          /\ submissions[k].outcome = "Exception"
          /\ InList(error_files, submissions[k].file)
          /\ \A j \in SubsOf(submissions[k].file) : j # k => ~Violates(submissions[j])
    /\ Len(success_files) > 0

(***************************************************************************)
(* C3: for a should_fail snippet, DHError leaves the failed flag of the    *)
(* file as it was, completion without error sets it, and any other error   *)
(* sets it, such a file being classified as failed.                        *)
(***************************************************************************)
C3_Step ==
    (/\ Len(submissions') = Len(submissions) + 1
     /\ submissions'[Len(submissions')].bucket = "should_fail")
    => LET outcome == submissions'[Len(submissions')].outcome
       IN /\ outcome = "DHError" => failed' = failed
          /\ outcome = "ok" => failed' = TRUE
          /\ outcome = "Exception" => failed' = TRUE

C3_OtherErrorFails ==
    \A k \in 1..Len(submissions) :
        (/\ submissions[k].bucket = "should_fail"
         /\ submissions[k].outcome # "DHError"
         /\ Classified(submissions[k].file))
        => InList(error_files, submissions[k].file)

\* C3: each step that submits a should_fail snippet treats failed as stated, and
\* a should_fail outcome other than DHError puts the classified file in error_files
C3_ShouldFailOutcomes == [][C3_Step]_vars /\ []C3_OtherErrorFails

\* a file failed by nothing but its should_fail snippet raising another error
C3_Witness ==
    \E k \in 1..Len(submissions) :
        /\ submissions[k].bucket = "should_fail"
        /\ submissions[k].outcome = "Exception"
        /\ InList(error_files, submissions[k].file)
        /\ \A j \in SubsOf(submissions[k].file) : j # k => ~Violates(submissions[j])

(***************************************************************************)
(* C4: when the two snippet loops of a file are over, and from then on,    *)
(* the file had as many submissions as its two buckets have non-empty      *)
(* snippets, whatever the outcomes were.                                   *)
(***************************************************************************)
\* the loops of the file last read are over, or the file is classified
LoopsOver ==
    /\ file_path \in extracted
    /\ script_strings.error = ""
    /\ \/ pc = "should_fail" /\ idx > Len(script_strings.should_fail)
       \/ Classified(file_path)

\* C4: submissions of the file = non-empty snippets of its two buckets
C4_AllSnippetsSubmitted ==
    LoopsOver => Cardinality(SubsOf(file_path)) = NonEmptySnippets(script_strings)

\* a classified file whose first submission raised and whose later should_run
\* snippet and should_fail snippet were submitted all the same
C4_Witness ==
    \E j, k \in 1..Len(submissions) :
        /\ j < k
        /\ submissions[j].file = submissions[k].file
        /\ submissions[j].outcome = "DHError"
        /\ submissions[j].bucket = "should_run"
        /\ submissions[k].bucket = "should_run"
        /\ \E m \in SubsOf(submissions[k].file) : submissions[m].bucket = "should_fail"
        /\ Classified(submissions[k].file)

(***************************************************************************)
(* C5: a run that came to its report ends with the failure exit exactly    *)
(* when error_files is not empty, and with success otherwise.              *)
(***************************************************************************)
C5_ExitByErrorFiles ==
    (pc = "done" /\ exit \in {"ok", "sys.exit: files failed"}) =>
        /\ exit = "sys.exit: files failed" <=> Len(error_files) > 0
        /\ exit = "ok" <=> Len(error_files) = 0

\* a successful end with skipped and succeeded files
C5_Witness ==
    /\ pc = "done" /\ exit = "ok"
    /\ Len(skipped_files) > 0 /\ Len(success_files) > 0 /\ Len(error_files) = 0

(***************************************************************************)
(* C6: a visited file whose path ends with neither ".md" nor the code      *)
(* extension is in skipped_files, was not read and had no submission; a    *)
(* file read with no non-empty snippet has no submission and, once main    *)
(* has left its loops, is in skipped_files.                                *)
(***************************************************************************)
NoKnownExtension(path) == ~EndsWith(path, ".md") /\ ~EndsWith(path, tags[3])

\* C6: skipped without read and submission (extension), or without submission
\* (no non-empty snippet)
C6_SkippedWithoutSubmission ==
    /\ \A path \in read_files \ pending :
          NoKnownExtension(path) =>
              /\ InList(skipped_files, path)
              /\ ~(path \in extracted)
              /\ SubsOf(path) = {}
    /\ (/\ file_path \in extracted
        /\ script_strings.error = ""
        /\ NonEmptySnippets(script_strings) = 0)
       => /\ SubsOf(file_path) = {}
          /\ ~InFile(file_path) => InList(skipped_files, file_path)

\* next to a file that was submitted, a file skipped for its extension and a
\* Markdown file read and skipped for having no code
C6_Witness ==
    /\ submissions # <<>>
    /\ \E path \in read_files :
          /\ Len(path) > 0 /\ ~(path \in ignore_paths)
          /\ NoKnownExtension(path)
          /\ InList(skipped_files, path)
    /\ file_path \in extracted
    /\ script_strings.error = ""
    /\ Len(script_strings.should_run) > 0
    /\ NonEmptySnippets(script_strings) = 0
    /\ InList(skipped_files, file_path)

(***************************************************************************)
(* C7: no run_script call was ever made with an empty string.              *)
(***************************************************************************)
C7_NoEmptySubmission ==
    \A k \in 1..Len(submissions) : Len(submissions[k].body) > 0

\* a classified file with an empty snippet in a bucket and with submissions
C7_Witness ==
    /\ Classified(file_path)
    /\ SubsOf(file_path) # {}
    /\ \E k \in 1..Len(script_strings.should_run) : Len(script_strings.should_run[k]) = 0

(***************************************************************************)
(* C8: a connect call makes at most max_retries attempts; after its first  *)
(* successful attempt it makes no other and returns that session; it ends  *)
(* the process exactly when max_retries attempts were made and all failed  *)
(* (none at all when max_retries is 0).                                    *)
(***************************************************************************)
C8_Counts ==
    /\ attempts <= max_retries
    /\ pc = "connect" => attempts = count + (IF new_session = None THEN 0 ELSE 1)
    /\ exhausted =>
          /\ pc = "done" /\ exit = "sys.exit: connect failed"
          /\ new_session = None /\ count = max_retries /\ attempts = max_retries

\* a step from the first successful attempt, and the step that ends a call
C8_Step ==
    /\ (pc = "connect" /\ new_session # None) =>
          (attempts' = attempts /\ session' = new_session /\ pc' = AfterConnect(ret))
    /\ (pc = "connect" /\ pc' # "connect") =>
          /\ exhausted' <=> (new_session = None /\ count = max_retries
                                /\ attempts = max_retries)
          /\ ~exhausted' => (session' = new_session /\ new_session # None)

\* C8: the counts hold in every state, and every step of a connect call that
\* follows a success or ends the call is as stated
C8_BoundedRetry == []C8_Counts /\ [][C8_Step]_vars

\* a reset's connect gives up after max_retries = 2 failed attempts, the
\* first connect having returned a session after one failed attempt
C8_Witness ==
    /\ exhausted
    /\ max_retries = 2
    /\ attempts = 2
    /\ session # None

(***************************************************************************)
(* C9: once a connect call has given up, no file is read and no snippet is *)
(* submitted any more; when it is the first connect, nothing was resolved, *)
(* read, submitted or classified at all.                                   *)
(***************************************************************************)
C9_Step == exhausted => (extracted' = extracted /\ submissions' = submissions)

C9_NothingProcessed ==
    (exhausted /\ session = None) =>
        /\ read_files = {} /\ extracted = {} /\ submissions = <<>>
        /\ skipped_files = <<>> /\ success_files = <<>> /\ error_files = <<>>

\* C9: no step after the exhaustion reads or submits, the run is over, and an
\* exhausted first connect left nothing processed
C9_ExhaustionStopsRun ==
    [][C9_Step]_vars /\ [](exhausted => pc = "done") /\ []C9_NothingProcessed

\* a reset's connect has given up with files still to visit
C9_Witness ==
    /\ exhausted
    /\ submissions # <<>>
    /\ pending # {}

(***************************************************************************)
(* C10: with reset_between_files given (0 included) and docker_compose     *)
(* absent, main raises the configuration error with no os.system command   *)
(* issued and no connection attempt made.                                  *)
(***************************************************************************)
C10_ConfigErrorFirst ==
    (reset_between_files # None /\ docker_compose = None) =>
        /\ commands = <<>>
        /\ attempts = 0 /\ sessions_made = 0
        /\ pc = "start" \/ (pc = "done" /\ exit = "ValueError")

\* the configuration error for reset_between_files = 0
C10_Witness ==
    /\ reset_between_files = Some(0)
    /\ docker_compose = None
    /\ pc = "done"
    /\ exit = "ValueError"

(***************************************************************************)
(* C11: with reset_between_files = N, each submission adds one to          *)
(* file_run_count, a reset starts exactly when the count then exceeds N    *)
(* and leaves the count 0; so the count never exceeds N + 1, is at most N  *)
(* before a submission, and no session gets more than N + 1 submissions.   *)
(* Without reset_between_files there is no reset.                          *)
(***************************************************************************)
\* the positions of the run_script calls made on the session
SubsOn(s) == {k \in 1..Len(submissions) : submissions[k].session = s}

\* main is where the next statement may be a submission
BeforeSubmission == pc \in {"should_run", "should_fail", "for_file"}

C11_Counts ==
    /\ reset_between_files # None =>
          /\ file_run_count <= Val(reset_between_files) + 1
          /\ BeforeSubmission => file_run_count <= Val(reset_between_files)
          /\ \A k \in 1..Len(submissions) :
                Cardinality(SubsOn(submissions[k].session))
                    <= Val(reset_between_files) + 1
    /\ reset_between_files = None =>
          /\ ~InList(commands, "stop")
          /\ ~(pc \in {"reset_stop", "reset_up"})
          /\ sessions_made <= 1

C11_Step ==
    /\ Len(submissions') = Len(submissions) + 1 =>
          /\ file_run_count' = file_run_count + 1
          /\ reset_between_files # None =>
                (pc' = "reset_stop" <=> file_run_count' > Val(reset_between_files))
    /\ (pc' = "reset_stop" /\ pc # "reset_stop") =>
          Len(submissions') = Len(submissions) + 1
    /\ (pc = "connect" /\ ret # "main" /\ pc' # "connect" /\ ~exhausted') =>
          file_run_count' = 0
    /\ (pc = "reset_stop" \/ pc = "reset_up") =>
          (Len(commands') = Len(commands) + 1 /\ submissions' = submissions)

DocumentedRuns(n) == IF n = 0 THEN 1 ELSE n

C12_ResetAfterNRuns ==
    (reset_between_files # None /\ BeforeSubmission) =>
        Cardinality(SubsOn(session)) < DocumentedRuns(Val(reset_between_files))

(***************************************************************************)
(* C13: the Markdown file t.md holds two fenced blocks, both marked        *)
(* test-set=1, with the bodies "a = 1\n" and "print(a)\n".  As stated:     *)
(* they yield one merged snippet "a = 1\n\nprint(a)\n", submitted exactly  *)
(* once.  As the code has it: the merged snippet is "a = 1\nprint(a)\n",   *)
(* the bodies concatenated with nothing between them.                      *)
(***************************************************************************)
\* the file t.md was read with the Python tags and its loops are over
ScenarioDOver == session_type = "python" /\ Classified("t.md")

\* the file's snippets are one should_run snippet with the body, submitted once
MergedOnce(body) ==
    /\ Cardinality(SubsOf("t.md")) = 1
    /\ \A k \in SubsOf("t.md") :
          submissions[k].body = body /\ submissions[k].bucket = "should_run"
    /\ file_path = "t.md" => script_strings = Group(<<body>>, <<>>)

\* C13 as stated: the merged body has a blank line between the two bodies
C13_MergedWithBlankLine == ScenarioDOver => MergedOnce("a = 1\n\nprint(a)\n")

\* C13 amended: the merged body is the two bodies one after the other
C13_MergedConcatenated == ScenarioDOver => MergedOnce("a = 1\nprint(a)\n")

C13_Witness ==
    /\ ScenarioDOver
    /\ pc = "done"
    /\ MergedOnce("a = 1\nprint(a)\n")

(***************************************************************************)
(* C16: files are visited in the lexical order of their paths: of any two  *)
(* run_script calls made for different files, the earlier one is for the   *)
(* lexically smaller path.                                                 *)
(***************************************************************************)
\* the place of a regular file in the lexical order
Rank(path) == CHOOSE i \in 1..Len(SortedFiles) : SortedFiles[i] = path

C16_LexicalOrder ==
    \A j, k \in 1..Len(submissions) :
        j < k => Rank(submissions[j].file) <= Rank(submissions[k].file)

(***************************************************************************)
(* C17: for the directory d, path_to_files returns exactly the regular     *)
(* files contained in d, the empty path not being one of them.             *)
(***************************************************************************)
\* the regular files below the directory
FilesBelow(dir) == {f \in DOMAIN FileContents : StartsWith(f, dir \o "/")}

C17_DirectoryFilesExactly ==
    (run_path = "d" /\ pc = "for_file") => read_files = FilesBelow("d")

(***************************************************************************)
(* C18: a path of the resolved ignore-set is never read and never has a    *)
(* snippet submitted; once the for loop has visited it, it is in           *)
(* skipped_files, once, and in no other list.                              *)
(***************************************************************************)
C18_IgnoredNeverRun ==
    \A path \in ignore_paths :
        /\ ~(path \in extracted)
        /\ SubsOf(path) = {}
        /\ path \in (read_files \ pending) =>
              /\ Count(skipped_files, path) = 1
              /\ ~InList(success_files, path)
              /\ ~InList(error_files, path)

\* the ignored code file of the directory was skipped in a run that
\* submitted the snippets of another file
C18_Witness ==
    /\ pc = "done"
    /\ "d/b.py" \in ignore_paths
    /\ "d/b.py" \in read_files
    /\ InList(skipped_files, "d/b.py")
    /\ SubsOf("d/a.md") # {}

(***************************************************************************)
(* C19: a file open() fails on is a failure of that file only: the run     *)
(* does not end on the error, and when it has ended the file is in         *)
(* error_files, the report having been reached.                            *)
(***************************************************************************)
C19_FaultFailsFileOnly ==
    \A path \in extracted \cap Unreadable :
        /\ exit # "OSError"
        /\ pc = "done" =>
              /\ exit \in {"ok", "sys.exit: files failed"}
              /\ InList(error_files, path)

(***************************************************************************)
(* What the snippets closed by the lines read ask the buckets to be: the   *)
(* snippets without a test set one by one, then one snippet for each test  *)
(* set, in the order the sets were first closed.                           *)
(***************************************************************************)
ClosedWith(test_set, fail) ==
    SelectSeq(md_closed, LAMBDA r : r.test_set = test_set /\ r.should_fail = fail)

Bodies(snippets) == [k \in 1..Len(snippets) |-> snippets[k].body]

RECURSIVE Joined(_)
Joined(snippets) ==
    IF Len(snippets) = 0 THEN "" ELSE Head(snippets).body \o Joined(Tail(snippets))

RECURSIVE FirstClosed(_, _, _)
FirstClosed(fail, k, acc) ==
    IF k > Len(md_closed) THEN acc
    ELSE LET r == md_closed[k]
         IN IF r.should_fail = fail /\ r.test_set # None /\ ~InList(acc, r.test_set)
            THEN FirstClosed(fail, k + 1, Append(acc, r.test_set))
            ELSE FirstClosed(fail, k + 1, acc)

ExpectedBucket(fail) ==
    LET sets == FirstClosed(fail, 1, <<>>)
    IN Bodies(ClosedWith(None, fail))
           \o [k \in 1..Len(sets) |-> Joined(ClosedWith(sets[k], fail))]

BucketsAsExpected ==
    /\ script_strings.should_run = ExpectedBucket(FALSE)
    /\ script_strings.should_fail = ExpectedBucket(TRUE)

\* the lines read closed a snippet of a test set
SomeTestSetClosed == \E k \in 1..Len(md_closed) : md_closed[k].test_set # None

(***************************************************************************)
(* C14: once read_markdown_file is over, for whatever lines, the closed    *)
(* snippets of each test set N make exactly one snippet of their bucket,   *)
(* its body being their bodies in file order, and none of them is an entry *)
(* of its own.                                                             *)
(***************************************************************************)
C14_TestSetsMerged ==
    (md_pc \in {"returned", "raised"} /\ SomeTestSetClosed) => BucketsAsExpected

\* the same, for the calls that return
TestSetsMergedOnReturn == md_pc = "returned" => BucketsAsExpected

(***************************************************************************)
(* C15: a line of a skipped block (its opening line, which holds           *)
(* "skip-test" or "syntax", and the lines before the one that ends it) is  *)
(* added to no body: the scan is not inside a snippet there, and reading   *)
(* the line leaves the snippet text and the four collections as they were. *)
(***************************************************************************)
ScanBodies ==
    <<md_st.current_script,
      md_st.no_test_set_should_run, md_st.test_set_should_run,
      md_st.no_test_set_should_fail, md_st.test_set_should_fail>>

C15_Step ==
    (md_n' = md_n + 1 /\ md_mode' = "skip") => ScanBodies' = ScanBodies

C15_NotInside == md_mode = "skip" => ~md_st.in_script

\* C15: no line of a skipped block gets into a body, and what is returned is
\* made of the snippets outside the skipped blocks
C15_SkippedNeverExtracted ==
    [][C15_Step]_vars /\ []C15_NotInside /\ []TestSetsMergedOnReturn

\* a file with two lines inside skipped blocks and a snippet with one line was
\* read to its end, and the snippet is all that is returned
C15_Witness ==
    /\ md_pc = "returned"
    /\ md_skipped = 2
    /\ script_strings = Group(<<"a\n">>, <<>>)

(***************************************************************************)
(* C20: for whatever lines, read_markdown_file returns a snippet group and *)
(* raises no error.                                                        *)
(***************************************************************************)
C20_NoErrorRaised == md_pc # "raised" /\ exit = ""

(***************************************************************************)
(* C21: a reset issues the stop command, then the start command, then      *)
(* calls connect_to_deephaven; from the stop command to the return of that *)
(* call nothing is submitted; a submission is made on the session the last *)
(* reset's connect returned (the first session when there was no reset).   *)
(***************************************************************************)
\* main is in a reset: at one of its two commands or in its connect call
InReset ==
    \/ pc \in {"reset_stop", "reset_up"}
    \/ pc = "connect" /\ ret # "main"

\* the resets begun so far
Resets == Count(commands, "stop")

C21_Step ==
    /\ pc = "reset_stop" =>
          (commands' = Append(commands, "stop") /\ pc' = "reset_up")
    /\ pc = "reset_up" =>
          (commands' = Append(commands, "up -d") /\ pc' = "connect"
              /\ ret' = ret /\ count' = 0 /\ new_session' = None)
    /\ InReset => submissions' = submissions
    /\ (InReset /\ ~InReset') =>
          \/ session' = Some(1 + Resets) /\ new_session = session'
          \/ pc' = "done" /\ exit' = "sys.exit: connect failed"
    /\ Len(submissions') = Len(submissions) + 1 =>
          /\ ~InReset
          /\ submissions'[Len(submissions')].session = Some(1 + Resets)

C21_Order ==
    /\ \A k \in 1..Len(commands) :
          commands[k] = "stop" =>
              /\ k < Len(commands) => commands[k + 1] = "up -d"
              /\ k = Len(commands) => pc = "reset_up"
    /\ \A j, k \in 1..Len(submissions) :
          j < k => Val(submissions[j].session) <= Val(submissions[k].session)

\* C21: every step of a reset is in the stated order and bars submissions, and
\* the commands and the sessions of the submissions are ordered accordingly
C21_ResetBarrier == [][C21_Step]_vars /\ []C21_Order

\* after a reset, a snippet was submitted on the session of the reset's connect
C21_Witness ==
    /\ Resets = 1
    /\ ~InReset
    /\ \E j, k \in 1..Len(submissions) :
          /\ j < k
          /\ submissions[j].session = Some(1)
          /\ submissions[k].session = Some(2)

(***************************************************************************)
(* C22: the count of failed attempts belongs to one connect_to_deephaven   *)
(* call: every call, the first and that of each reset, starts with count 0 *)
(* and no attempt made, counts its own failures only, and can go on trying *)
(* while it has made fewer than max_retries attempts without a session,    *)
(* whatever failed in the calls before.                                    *)
(***************************************************************************)
C22_Step ==
    (pc # "connect" /\ pc' = "connect") =>
        (count' = 0 /\ attempts' = 0 /\ new_session' = None)

C22_OwnFailures ==
    pc = "connect" =>
        /\ attempts = count + (IF new_session = None THEN 0 ELSE 1)
        /\ attempts <= max_retries
        /\ (new_session = None /\ attempts < max_retries) => ENABLED ConnectAttempt

\* C22: each call starts at zero and has max_retries attempts of its own
C22_CounterLocalToCall == [][C22_Step]_vars /\ []C22_OwnFailures

\* the connect call of a reset made all its max_retries attempts, an earlier
\* call having had a failed attempt of its own
C22_Witness ==
    /\ pc = "connect"
    /\ ret # "main"
    /\ failed_before
    /\ max_retries = MaxRetriesBound
    /\ attempts = max_retries

(***************************************************************************)
(* C23: in each bucket read_markdown_file returns, the snippets without a  *)
(* test set come first, in file order, and after them the merged snippets  *)
(* of the test sets, in the order in which the sets first closed a snippet *)
(* of that bucket.                                                         *)
(***************************************************************************)
C23_BucketOrder ==
    md_pc = "returned" =>
        \A fail \in BOOLEAN :
            LET bucket == IF fail THEN script_strings.should_fail
                          ELSE script_strings.should_run
                alone == Bodies(ClosedWith(None, fail))
                sets == FirstClosed(fail, 1, <<>>)
            IN /\ Len(bucket) = Len(alone) + Len(sets)
               /\ \A k \in 1..Len(alone) : bucket[k] = alone[k]
               /\ \A k \in 1..Len(sets) :
                     bucket[Len(alone) + k] = Joined(ClosedWith(sets[k], fail))

\* a file closing a snippet of test set 2, then one without a test set, then
\* one of test set 1 was read to its end
C23_Witness ==
    /\ md_pc = "returned"
    /\ Len(md_closed) = 3
    /\ md_closed[1] = [test_set |-> Some(2), should_fail |-> FALSE, body |-> "a\n"]
    /\ md_closed[2] = [test_set |-> None, should_fail |-> FALSE, body |-> ""]
    /\ md_closed[3] = [test_set |-> Some(1), should_fail |-> FALSE, body |-> ""]
    /\ script_strings.should_run = <<"", "a\n", "">>

(***************************************************************************)
(* C24: the submissions of a file are the non-empty snippets of its        *)
(* should_run bucket, in the order of the bucket, and after all of them    *)
(* the non-empty snippets of its should_fail bucket; the submissions of a  *)
(* file are not interleaved with those of another file.                    *)
(***************************************************************************)
\* the bodies submitted for the file from the bucket, in the order submitted
SubBodies(path, bucket) ==
    Bodies(SelectSeq(submissions, LAMBDA r : r.file = path /\ r.bucket = bucket))

NonEmptySeq(list) == SelectSeq(list, LAMBDA x : Len(x) > 0)

\* the first n entries of the list (all of them when n is larger)
FirstOf(list, n) == SubSeq(list, 1, Min({n, Len(list)}))

\* the loop main is in for the file last read, a reset and the exit of its
\* connect included; "over" after the loops
Phase ==
    CASE pc \in {"should_run", "should_fail"} -> pc
      [] InReset -> ret
      [] pc = "done" /\ exit = "sys.exit: connect failed" /\ ret # "main" -> ret
      [] OTHER -> "over"

C24_SubmissionOrder ==
    /\ \A j, k \in 1..Len(submissions) :
          (j < k /\ submissions[j].file = submissions[k].file) =>
              /\ ~(submissions[j].bucket = "should_fail"
                      /\ submissions[k].bucket = "should_run")
              /\ \A i \in j..k : submissions[i].file = submissions[j].file
    /\ (file_path \in extracted /\ script_strings.error = "") =>
          /\ SubBodies(file_path, "should_run") =
                NonEmptySeq(IF Phase = "should_run"
                            THEN FirstOf(script_strings.should_run, idx - 1)
                            ELSE script_strings.should_run)
          /\ SubBodies(file_path, "should_fail") =
                NonEmptySeq(CASE Phase = "should_run" -> <<>>
                              [] Phase = "should_fail" ->
                                    FirstOf(script_strings.should_fail, idx - 1)
                              [] OTHER -> script_strings.should_fail)

\* the two should_run snippets and the should_fail snippet of d/a.md were
\* submitted in a run that also submitted the code of d/b.py
C24_Witness ==
    /\ pc = "done"
    /\ SubBodies("d/a.md", "should_run") = <<"x = 1\n", "w = 3\n">>
    /\ SubBodies("d/a.md", "should_fail") = <<"y\n">>
    /\ SubBodies("d/b.py", "should_run") = <<"z = 2\n">>

(***************************************************************************)
(* C25: when the file ends inside a snippet, read_markdown_file returns    *)
(* without an error, and the buckets it returns are those of the snippets  *)
(* closed before: the open snippet is in none of them, and in no test set. *)
(***************************************************************************)
C25_OpenSnippetDropped ==
    (md_pc = "returned" /\ md_mode = "snippet") =>
        /\ script_strings.error = ""
        /\ exit = ""
        /\ BucketsAsExpected
        /\ md_st.in_script
        /\ md_st.current_script = md_open.body

\* the file ended inside the second snippet of test set 1
C25_Witness ==
    /\ md_pc = "returned"
    /\ md_mode = "snippet"
    /\ md_open = [test_set |-> Some(1), should_fail |-> FALSE, body |-> "b\n"]
    /\ md_closed = << [test_set |-> Some(1), should_fail |-> FALSE, body |-> "a\n"] >>
    /\ script_strings = Group(<<"a\n">>, <<>>)

(***************************************************************************)
(* C26: inside a snippet, a line that starts with the end tag closes the   *)
(* snippet, a line starting with the start tag being such a line: the      *)
(* snippet is closed with the text it had, the line is added to no body    *)
(* and opens nothing, and the scan is outside a snippet after it.          *)
(***************************************************************************)
C26_Step ==
    (md_n' = md_n + 1 /\ md_st.in_script /\ StartsWith(md_line', tags[2])) =>
        /\ ~md_st'.in_script
        /\ md_st'.error = ""
        /\ md_st'.current_script = md_st.current_script
        /\ md_mode' = "out"
        /\ md_closed' = Append(md_closed,
                               [test_set |-> md_st.test_set,
                                should_fail |-> md_st.should_fail,
                                body |-> md_st.current_script])

\* C26: every step reading such a line inside a snippet closes the snippet
C26_EndTagCloses == [][C26_Step]_vars

\* the snippet with the line a was closed by a line starting with the start tag
C26_Witness ==
    /\ md_n = 3
    /\ md_line = "~~~python\n"
    /\ ~md_st.in_script
    /\ md_closed = << [test_set |-> None, should_fail |-> FALSE, body |-> "a\n"] >>

(***************************************************************************)
(* C27: skipped and failed are set anew for each file read, failed once    *)
(* set stays set until the next file is read, and the two flags say what   *)
(* the submissions of the file itself did; so a file is in error_files     *)
(* only for a submission of its own.                                       *)
(***************************************************************************)
\* a submission of the file had an outcome its bucket does not expect
OwnViolation(path) == \E k \in SubsOf(path) : Violates(submissions[k])

C27_Step ==
    /\ (pc = "for_file" /\ pc' = "should_run") => (skipped' /\ ~failed')
    /\ (failed /\ ~failed') => (pc = "for_file" /\ pc' = "should_run")

C27_OwnOutcomes ==
    /\ (file_path \in extracted /\ script_strings.error = "") =>
          /\ failed <=> OwnViolation(file_path)
          /\ skipped <=> SubsOf(file_path) = {}
    /\ \A k \in 1..Len(error_files) : OwnViolation(error_files[k])
    /\ \A k \in 1..Len(success_files) :
          SubsOf(success_files[k]) # {} /\ ~OwnViolation(success_files[k])

\* C27: the flags are per file on every step, and say the file's own outcomes
C27_ClassificationByOwnOutcomes == [][C27_Step]_vars /\ []C27_OwnOutcomes

\* d/b.py, read after d/a.md had failed, is classified as succeeded
C27_Witness ==
    /\ InList(error_files, "d/a.md")
    /\ file_path = "d/b.py"
    /\ InList(success_files, "d/b.py")

(***************************************************************************)
(* C28: when the connect call of a reset gives up, the process exits       *)
(* there: the file being processed is in none of the three lists, the      *)
(* report is not made, and nothing happens afterwards.                     *)
(***************************************************************************)
\* a connect call made by a reset has given up
ResetGaveUp == exhausted /\ ret # "main"

C28_ExitAtReset ==
    ResetGaveUp =>
        /\ pc = "done"
        /\ exit = "sys.exit: connect failed"
        /\ file_path \in extracted
        /\ SubsOf(file_path) # {}
        /\ ~Classified(file_path)

C28_Step == ResetGaveUp => UNCHANGED vars

\* C28: the exit leaves the file unclassified, and no step follows it
C28_ResetExhaustionExits == []C28_ExitAtReset /\ [][C28_Step]_vars

\* the reset after a snippet of the second file gave up
C28_Witness ==
    /\ ResetGaveUp
    /\ Len(error_files) + Len(success_files) > 0
    /\ ~Classified(file_path)

(***************************************************************************)
(* C29: the run ends.  As stated: it ends at the report or at the exit of  *)
(* a connect call that gave up, and nowhere else.  As the code has it: it  *)
(* ends there, or on the ValueError of the configuration check or of the   *)
(* session type, or on the exception of reading a file.                    *)
(***************************************************************************)
EndsOfRun ==
    {"ok", "sys.exit: files failed", "sys.exit: connect failed"}

====
